---- MODULE Spec2Model ----
(***************************************************************************)
(* Model of VerifyCommand.DoVerify (package cosign) and of the trust        *)
(* material loaders it uses: loadCertFromFileOrURL, loadCertFromPEM,        *)
(* loadCertChainFromFileOrURL and keylessVerification.                      *)
(*                                                                          *)
(* DoVerify is modelled as a sequential program: pc is the position in the  *)
(* function body, c the receiver's options, co the CheckOpts under          *)
(* construction.  Calls into libraries (cosign, fulcio, rekor, pivkey,      *)
(* blob, cryptoutils) are inputs: each returns one of a small set of        *)
(* outcomes.  calls and evals record the calls made, in order.              *)
(***************************************************************************)
EXTENDS Naturals, Sequences, FiniteSets

VARIABLES
    c,          \* the VerifyCommand receiver (its option fields)
    images,     \* the images argument of DoVerify
    ctxDone,    \* whether the caller's ctx has been cancelled
    fs,         \* what the CertRef / CertChain locators resolve to, once read
    co,         \* the cosign.CheckOpts built by DoVerify
    chain,      \* the chain local of the keyless block (lines 148-159)
    cert,       \* the cert local of the certificate case (line 206)
    pubKey,     \* the pubKey local (line 184)
    branch,     \* the case of the key-source switch that was entered
    deferred,   \* the deferred Close calls, oldest first
    handles,    \* per hardware-token handle: times opened and closed
    idx,        \* position of the range loop over images (1-based)
    evals,      \* per-artifact evaluations performed, in order
    calls,      \* library calls performed, in order
    pc,         \* position in DoVerify
    ret         \* DoVerify's returned error

vars == <<c, images, ctxDone, fs, co, chain, cert, pubKey, branch, deferred,
          handles, idx, evals, calls, pc, ret>>

----------------------------------------------------------------------------
(* Bounds *)

MaxImages == 2
MaxChainLen == 2
MaxCertFileLen == 1

(* Input domains *)

Certs == {"certA", "certB"}
ImageNames == {"img"}
Nil == "nil"

\* A *x509.CertPool: nil, or a pool holding a set of certificates.
NilPool == [pool |-> FALSE, certs |-> {}]
Pool(S) == [pool |-> TRUE, certs |-> S]

\* The chain local: not yet assigned, or the certificates loaded.
NoChain == [loaded |-> FALSE, certs |-> <<>>]
Chain(certs) == [loaded |-> TRUE, certs |-> certs]

RECURSIVE SeqsUpTo(_, _)
SeqsUpTo(S, n) ==
    IF n = 0 THEN {<<>>}
    ELSE LET shorter == SeqsUpTo(S, n - 1)
         IN  shorter \cup {Append(s, x) : s \in {t \in shorter : Len(t) = n - 1}, x \in S}

\* PEM bodies of up to n certificates: a sequence of certificate blocks, or
\* bytes that are not PEM.
Bodies(n) == SeqsUpTo(Certs, n) \cup {<<"junk">>}

\* File content: a PEM body as is ("raw") or wrapped once more in base64.
\* The base64 encoding of the empty content is the empty content.
Contents(n) ==
    {[enc |-> e, body |-> b] : e \in {"raw", "b64"}, b \in Bodies(n)}
        \ {[enc |-> "b64", body |-> <<>>]}

Missing == [enc |-> "missing", body |-> <<>>]
Unread == [enc |-> "unread", body |-> <<>>]

----------------------------------------------------------------------------
(* Library conversions used by the loaders *)

\* base64.StdEncoding.DecodeString: PEM text and junk hold bytes outside the
\* base64 alphabet ('-', ' '); the empty string decodes to itself.
Base64Decode(x) ==
    IF x.enc = "b64" THEN [ok |-> TRUE, out |-> [enc |-> "raw", body |-> x.body]]
    ELSE IF x.body = <<>> THEN [ok |-> TRUE, out |-> x]
    ELSE [ok |-> FALSE, out |-> x]

\* cryptoutils.UnmarshalCertificatesFromPEM / LoadCertificatesFromPEM: every
\* block must decode as a certificate; no bytes at all give zero certificates.
UnmarshalCertificatesFromPEM(x) ==
    IF x.enc = "b64" \/ \E k \in 1..Len(x.body) : x.body[k] \notin Certs
    THEN [ok |-> FALSE, certs |-> <<>>]
    ELSE [ok |-> TRUE, certs |-> x.body]

\* loadCertFromPEM: base64 first, raw bytes when that fails; the first
\* certificate, or an error.
loadCertFromPEM(pems) ==
    LET dec   == Base64Decode(pems)
        out   == IF dec.ok THEN dec.out ELSE pems
        certs == UnmarshalCertificatesFromPEM(out)
    IN  IF ~certs.ok THEN [ok |-> FALSE, err |-> "pem decoding", cert |-> Nil]
        ELSE IF Len(certs.certs) = 0
             THEN [ok |-> FALSE, err |-> "no certs found in pem file", cert |-> Nil]
        ELSE [ok |-> TRUE, err |-> Nil, cert |-> certs.certs[1]]

\* loadCertFromFileOrURL on a locator that resolves to content x.
loadCertFromFileOrURL(x) ==
    IF x = Missing THEN [ok |-> FALSE, err |-> "load file or url", cert |-> Nil]
    ELSE loadCertFromPEM(x)

\* loadCertChainFromFileOrURL on a locator that resolves to content x.
loadCertChainFromFileOrURL(x) ==
    IF x = Missing THEN [ok |-> FALSE, err |-> "load file or url", certs |-> <<>>]
    ELSE LET certs == UnmarshalCertificatesFromPEM(x)
         IN  IF ~certs.ok THEN [ok |-> FALSE, err |-> "pem decoding", certs |-> <<>>]
             ELSE [ok |-> TRUE, err |-> Nil, certs |-> certs.certs]

\* keylessVerification with the keyRef test dropped.
keylessVerification_NoKeyRefTest(keyRef, sk) ==
    IF sk THEN FALSE ELSE TRUE

\* Line 317-325.
keylessVerification(keyRef, sk) ==
    IF keyRef # "" THEN FALSE
    ELSE IF sk THEN FALSE
    ELSE TRUE

----------------------------------------------------------------------------
(* Errors, calls and deferred functions *)

NoError == [msg |-> Nil, cause |-> Nil]
Error(msg, cause) == [msg |-> msg, cause |-> cause]

\* The error a failed library call hands back.
Cause(res) == IF res = "canceled" THEN "context.Canceled" ELSE "error"

\* Outcomes of a library call that takes no context.
Outcomes == {"ok", "err"}

\* Outcomes of a library call that takes ctx: it gives up once ctx is done.
CtxOutcomes == IF ctxDone THEN {"canceled"} ELSE {"ok", "err"}

Call(op, res) == [op |-> op, res |-> res, ctxDone |-> ctxDone]

HandleNames == {"pkcs11Key", "sk"}

Open(h, name) == [h EXCEPT ![name].opens = @ + 1]
Close(h, name) == [h EXCEPT ![name].closes = @ + 1]

\* Deferred calls run last-registered first when DoVerify returns.
RECURSIVE RunDeferred(_, _)
RunDeferred(d, h) ==
    IF d = <<>> THEN h
    ELSE RunDeferred(SubSeq(d, 1, Len(d) - 1), Close(h, d[Len(d)]))

\* Any return statement of DoVerify: the deferred calls registered so far
\* run, then the caller sees e.
Return(e) ==
    /\ pc' = "done"
    /\ ret' = e
    /\ handles' = RunDeferred(deferred, handles)
    /\ deferred' = <<>>

\* A run-time panic unwinds DoVerify: deferred calls run, no error value.
Panic(what) ==
    /\ pc' = "panic"
    /\ ret' = Error(what, "panic")
    /\ handles' = RunDeferred(deferred, handles)
    /\ deferred' = <<>>

Goto(l) == pc' = l /\ UNCHANGED <<ret, handles, deferred>>

----------------------------------------------------------------------------
(* Decisions of DoVerify *)

\* Line 79-88: the images and the attachment kind the command accepts.
InputsAccepted(imgs, attachment) ==
    /\ Len(imgs) # 0
    /\ attachment \in {"sbom", ""}

\* NeedRekorPubs with the fetch skipped in offline mode.
NeedRekorPubs_SkipOffline(cmd) == ~cmd.IgnoreTlog /\ ~cmd.Offline

\* Line 131: the Rekor public keys are needed unless tlog is ignored.
NeedRekorPubs(cmd) == ~cmd.IgnoreTlog

\* Line 176: the CT log public keys are needed unless SCTs are ignored.
NeedCTLogPubs(cmd) == ~cmd.IgnoreSCT

\* RootPool with the first certificate taken as the root.
RootPool_First(ch) == Pool({ch[1]})

\* Line 152-153: the root pool of an operator-supplied chain.
RootPool(ch) == Pool({ch[Len(ch)]})

\* Line 154-159: the intermediate pool of an operator-supplied chain; it is
\* left unset for a chain of one certificate.
IntermediatePool(ch) ==
    IF Len(ch) > 1 THEN Pool({ch[k] : k \in 1..(Len(ch) - 1)}) ELSE NilPool

\* KeySourceBranch with the hardware-token case tested first.
KeySourceBranch_SkFirst(keyRef, sk, certRef) ==
    IF sk THEN "sk"
    ELSE IF keyRef # "" THEN "keyRef"
    ELSE IF certRef # "" THEN "certRef"
    ELSE "keyless"

\* Line 185-242: the case of the switch that is entered; "keyless" when no
\* case matches and pubKey stays nil.
KeySourceBranch(keyRef, sk, certRef) ==
    IF keyRef # "" THEN "keyRef"
    ELSE IF sk THEN "sk"
    ELSE IF certRef # "" THEN "certRef"
    ELSE "keyless"

\* DeferClose with the defer statement left out.
DeferClose_Forgotten(d, name) == d

\* Line 191-194 and 200: the Close calls DoVerify defers once a token-backed
\* key is in hand.
DeferClose(d, name) == Append(d, name)

\* LoopContinues with a failed image skipped over instead of returned.
LoopContinues_BestEffort(res) == TRUE

\* Line 256-258 and 270-272: the loop goes on to the next image only when
\* the current one verified.
LoopContinues(res) == res = "ok"

----------------------------------------------------------------------------
(* Initial state: DoVerify is called with some options and some images *)

\* The option fields of VerifyCommand that DoVerify reads.  Attachment and
\* SCTRef are read at one place each and are inputs of the steps that read
\* them (CheckInputs, ReadSCT).
Commands ==
    [ KeyRef           : {"", "key.pub", "pkcs11:token"},
      Sk               : BOOLEAN,
      CertRef          : {"", "cert.pem"},
      CertChain        : {"", "chain.pem"},
      HashAlgorithm    : {"0", "SHA256"},
      TSACertChainPath : {"", "tsa.pem"},
      IgnoreTlog       : BOOLEAN,
      IgnoreSCT        : BOOLEAN,
      RekorURL         : {"", "https://rekor"},
      Offline          : BOOLEAN,
      LocalImage       : BOOLEAN ]

Attachments == {"", "sbom", "sig"}
SCTRefs == {"", "sct"}

EmptyCheckOpts ==
    [ built |-> FALSE, IgnoreSCT |-> FALSE, IgnoreTlog |-> FALSE,
      Offline |-> FALSE, Identities |-> Nil, RekorClient |-> Nil,
      RekorPubKeys |-> Nil, CTLogPubKeys |-> Nil, RootCerts |-> NilPool,
      IntermediateCerts |-> NilPool, SigVerifier |-> Nil, SCT |-> Nil ]

Init ==
    /\ c \in Commands
    /\ images \in SeqsUpTo(ImageNames, MaxImages)
    /\ ctxDone = FALSE
    /\ fs = [cert |-> Unread, chain |-> Unread]
    /\ co = EmptyCheckOpts
    /\ chain = NoChain
    /\ cert = Nil
    /\ pubKey = Nil
    /\ branch = Nil
    /\ deferred = <<>>
    /\ handles = [h \in HandleNames |-> [opens |-> 0, closes |-> 0]]
    /\ idx = 1
    /\ evals = <<>>
    /\ calls = <<>>
    /\ pc = "start"
    /\ ret = NoError

----------------------------------------------------------------------------
(* The caller cancels ctx while DoVerify runs *)

Cancel ==
    /\ pc \notin {"done", "panic"}
    /\ ~ctxDone
    /\ ctxDone' = TRUE
    /\ UNCHANGED <<c, images, fs, co, chain, cert, pubKey, branch, deferred,
                   handles, idx, evals, calls, pc, ret>>

\* What a locator resolves to: chosen when it is first read, the same after.
Resolve(which, x) ==
    /\ IF fs[which] = Unread THEN fs' = [fs EXCEPT ![which] = x]
       ELSE x = fs[which] /\ fs' = fs

----------------------------------------------------------------------------
(* DoVerify, line 78-129 *)

\* Line 79-93: input checks and the hash algorithm default.
CheckInputs ==
    /\ pc = "start"
    /\ \E attachment \in Attachments :
          IF InputsAccepted(images, attachment)
          THEN /\ c' = [c EXCEPT !.HashAlgorithm = IF @ = "0" THEN "SHA256" ELSE @]
               /\ Goto("identities")
          ELSE /\ c' = c
               /\ Return(Error("flag.ErrHelp", "error"))
    /\ UNCHANGED <<images, ctxDone, fs, co, chain, cert, pubKey, branch, idx, evals, calls>>

\* Line 95-101: identities are computed only without a static key.
Identities ==
    /\ pc = "identities"
    /\ \E res \in Outcomes :
          IF c.KeyRef = ""
          THEN /\ calls' = Append(calls, Call("c.Identities", res))
               /\ IF res = "ok"
                  THEN /\ co' = [co EXCEPT !.Identities = "identities"]
                       /\ Goto("clientOpts")
                  ELSE /\ co' = co
                       /\ Return(Error("identities", Cause(res)))
          ELSE /\ res = "ok"
               /\ UNCHANGED <<calls, co>>
               /\ Goto("clientOpts")
    /\ UNCHANGED <<c, images, ctxDone, fs, chain, cert, pubKey, branch, idx, evals>>

\* Line 103-129: client options (ctx is stored in them, nothing waits on
\* it), the CheckOpts literal, the TSA check.
ClientOpts ==
    /\ pc = "clientOpts"
    /\ \E res \in Outcomes :
          /\ calls' = Append(calls, Call("c.ClientOpts", res))
          /\ IF res # "ok"
             THEN /\ co' = co
                  /\ Return(Error("constructing client options", Cause(res)))
             ELSE /\ co' = [co EXCEPT !.built = TRUE,
                                      !.IgnoreSCT = c.IgnoreSCT,
                                      !.IgnoreTlog = c.IgnoreTlog,
                                      !.Offline = c.Offline]
                  /\ IF c.TSACertChainPath # ""
                     THEN Return(Error("TSA cert chains are not supported in this tool", "error"))
                     ELSE Goto("rekor")
    /\ UNCHANGED <<c, images, ctxDone, fs, chain, cert, pubKey, branch, idx, evals>>

----------------------------------------------------------------------------
(* DoVerify, line 131-181: transparency keys and trust roots *)

\* Line 131-145.
RekorPubs ==
    /\ pc = "rekor"
    /\ IF ~NeedRekorPubs(c)
       THEN /\ UNCHANGED <<calls, co>>
            /\ Goto("roots")
       ELSE \E client \in (IF c.RekorURL # "" THEN Outcomes ELSE {"ok"}),
               res \in CtxOutcomes :
               LET made == IF c.RekorURL # ""
                           THEN Append(calls, Call("rekor.NewClient", client))
                           ELSE calls
               IN  IF client # "ok"
                   THEN /\ calls' = made
                        /\ co' = co
                        /\ Return(Error("creating Rekor client", Cause(client)))
                   ELSE /\ calls' = Append(made, Call("cosign.GetRekorPubs", res))
                        /\ IF res # "ok"
                           THEN /\ co' = [co EXCEPT !.RekorClient =
                                            IF c.RekorURL # "" THEN "rekorClient" ELSE @]
                                /\ Return(Error("getting Rekor public keys", Cause(res)))
                           ELSE /\ co' = [co EXCEPT !.RekorClient =
                                            IF c.RekorURL # "" THEN "rekorClient" ELSE @,
                                                    !.RekorPubKeys = "rekorPubKeys"]
                                /\ Goto("roots")
    /\ UNCHANGED <<c, images, ctxDone, fs, chain, cert, pubKey, branch, idx, evals>>

\* Line 146: static-key and hardware-token verification need no roots.
RootsSkipped ==
    /\ pc = "roots"
    /\ ~keylessVerification(c.KeyRef, c.Sk)
    /\ Goto("ctlog")
    /\ UNCHANGED <<c, images, ctxDone, fs, co, chain, cert, pubKey, branch, idx, evals, calls>>

\* Line 147-159: roots from the operator-supplied chain.
RootsFromChain ==
    /\ pc = "roots"
    /\ keylessVerification(c.KeyRef, c.Sk)
    /\ c.CertChain # ""
    /\ \E x \in Contents(MaxChainLen) \cup {Missing} :
          /\ Resolve("chain", x)
          /\ LET loaded == loadCertChainFromFileOrURL(x)
             IN  /\ calls' = Append(calls, Call("loadCertChainFromFileOrURL",
                                                IF loaded.ok THEN "ok" ELSE "err"))
                 /\ IF ~loaded.ok
                    THEN /\ UNCHANGED <<chain, co>>
                         /\ Return(Error(loaded.err, "error"))
                    ELSE /\ chain' = Chain(loaded.certs)
                         /\ IF Len(loaded.certs) = 0
                            THEN /\ co' = [co EXCEPT !.RootCerts = Pool({})]
                                 /\ Panic("index out of range [-1]")
                            ELSE /\ co' = [co EXCEPT
                                     !.RootCerts = RootPool(loaded.certs),
                                     !.IntermediateCerts = IntermediatePool(loaded.certs)]
                                 /\ Goto("ctlog")
    /\ UNCHANGED <<c, images, ctxDone, cert, pubKey, branch, idx, evals>>

\* Line 160-166: the Fulcio roots.
FulcioRoots ==
    /\ pc = "roots"
    /\ keylessVerification(c.KeyRef, c.Sk)
    /\ c.CertChain = ""
    /\ \E res \in Outcomes :
          /\ calls' = Append(calls, Call("fulcio.GetRoots", res))
          /\ IF res = "ok"
             THEN /\ co' = [co EXCEPT !.RootCerts = Pool({"fulcioRoot"})]
                  /\ Goto("intermediates")
             ELSE /\ co' = co
                  /\ Return(Error("getting Fulcio roots", Cause(res)))
    /\ UNCHANGED <<c, images, ctxDone, fs, chain, cert, pubKey, branch, idx, evals>>

\* Line 167-170: the Fulcio intermediates.
FulcioIntermediates ==
    /\ pc = "intermediates"
    /\ \E res \in Outcomes :
          /\ calls' = Append(calls, Call("fulcio.GetIntermediates", res))
          /\ IF res = "ok"
             THEN /\ co' = [co EXCEPT !.IntermediateCerts = Pool({"fulcioIntermediate"})]
                  /\ Goto("ctlog")
             ELSE /\ co' = co
                  /\ Return(Error("getting Fulcio intermediates", Cause(res)))
    /\ UNCHANGED <<c, images, ctxDone, fs, chain, cert, pubKey, branch, idx, evals>>

\* Line 173-181.
CTLogPubs ==
    /\ pc = "ctlog"
    /\ IF ~NeedCTLogPubs(c)
       THEN /\ UNCHANGED <<calls, co>>
            /\ Goto("switch")
       ELSE \E res \in CtxOutcomes :
               /\ calls' = Append(calls, Call("cosign.GetCTLogPubs", res))
               /\ IF res = "ok"
                  THEN /\ co' = [co EXCEPT !.CTLogPubKeys = "ctLogPubKeys"]
                       /\ Goto("switch")
                  ELSE /\ co' = co
                       /\ Return(Error("getting ctlog public keys", Cause(res)))
    /\ UNCHANGED <<c, images, ctxDone, fs, chain, cert, pubKey, branch, idx, evals>>

----------------------------------------------------------------------------
(* DoVerify, line 183-243: the key source *)

\* Line 186-194 and 243: a static key reference; a PKCS#11 key holds a
\* token session that DoVerify closes when it returns.
KeyRefCase ==
    /\ pc = "switch"
    /\ KeySourceBranch(c.KeyRef, c.Sk, c.CertRef) = "keyRef"
    /\ branch' = "keyRef"
    /\ \E res \in CtxOutcomes :
          /\ calls' = Append(calls, Call("sigs.PublicKeyFromKeyRefWithHashAlgo", res))
          /\ IF res # "ok"
             THEN /\ UNCHANGED <<pubKey, co>>
                  /\ Return(Error("loading public key", Cause(res)))
             ELSE IF c.KeyRef = "pkcs11:token"
                  THEN /\ pubKey' = "pkcs11Key"
                       /\ co' = [co EXCEPT !.SigVerifier = "pkcs11Key"]
                       /\ handles' = Open(handles, "pkcs11Key")
                       /\ deferred' = DeferClose(deferred, "pkcs11Key")
                       /\ pc' = "loop"
                       /\ ret' = ret
                  ELSE /\ pubKey' = "staticKey"
                       /\ co' = [co EXCEPT !.SigVerifier = "staticKey"]
                       /\ Goto("loop")
    /\ UNCHANGED <<c, images, ctxDone, fs, chain, cert, idx, evals>>

\* Line 195-200: the PIV token is opened and its Close deferred.
SkCase ==
    /\ pc = "switch"
    /\ KeySourceBranch(c.KeyRef, c.Sk, c.CertRef) = "sk"
    /\ branch' = "sk"
    /\ \E res \in Outcomes :
          /\ calls' = Append(calls, Call("pivkey.GetKeyWithSlot", res))
          /\ IF res # "ok"
             THEN Return(Error("opening piv token", Cause(res)))
             ELSE /\ handles' = Open(handles, "sk")
                  /\ deferred' = DeferClose(deferred, "sk")
                  /\ pc' = "skVerifier"
                  /\ ret' = ret
    /\ UNCHANGED <<c, images, ctxDone, fs, co, chain, cert, pubKey, idx, evals>>

\* Line 201-204 and 243.
SkVerifier ==
    /\ pc = "skVerifier"
    /\ \E res \in Outcomes :
          /\ calls' = Append(calls, Call("sk.Verifier", res))
          /\ IF res # "ok"
             THEN /\ UNCHANGED <<pubKey, co>>
                  /\ Return(Error("initializing piv token verifier", Cause(res)))
             ELSE /\ pubKey' = "pivKey"
                  /\ co' = [co EXCEPT !.SigVerifier = "pivKey"]
                  /\ Goto("loop")
    /\ UNCHANGED <<c, images, ctxDone, fs, chain, cert, branch, idx, evals>>

\* Line 205-209: the certificate is loaded.
CertRefCase ==
    /\ pc = "switch"
    /\ KeySourceBranch(c.KeyRef, c.Sk, c.CertRef) = "certRef"
    /\ branch' = "certRef"
    /\ \E x \in Contents(MaxCertFileLen) \cup {Missing} :
          /\ Resolve("cert", x)
          /\ LET loaded == loadCertFromFileOrURL(x)
             IN  /\ calls' = Append(calls, Call("loadCertFromFileOrURL",
                                                IF loaded.ok THEN "ok" ELSE "err"))
                 /\ IF ~loaded.ok
                    THEN /\ cert' = cert
                         /\ Return(Error(loaded.err, "error"))
                    ELSE /\ cert' = loaded.cert
                         /\ Goto(IF c.CertChain = "" THEN "certRoots" ELSE "certChain")
    /\ UNCHANGED <<c, images, ctxDone, co, chain, pubKey, idx, evals>>

\* Line 210-215: no chain was passed, the Fulcio roots are fetched.
CertFulcioRoots ==
    /\ pc = "certRoots"
    /\ \E res \in Outcomes :
          /\ calls' = Append(calls, Call("fulcio.GetRoots", res))
          /\ IF res = "ok"
             THEN /\ co' = [co EXCEPT !.RootCerts = Pool({"fulcioRoot"})]
                  /\ Goto("certIntermediates")
             ELSE /\ co' = co
                  /\ Return(Error("getting Fulcio roots", Cause(res)))
    /\ UNCHANGED <<c, images, ctxDone, fs, chain, cert, pubKey, branch, idx, evals>>

\* Line 216-223: the Fulcio intermediates, then the certificate is validated.
CertFulcioIntermediates ==
    /\ pc = "certIntermediates"
    /\ \E res \in Outcomes, valid \in Outcomes :
          /\ calls' = IF res # "ok"
                       THEN Append(calls, Call("fulcio.GetIntermediates", res))
                       ELSE calls \o <<Call("fulcio.GetIntermediates", res),
                                       Call("cosign.ValidateAndUnpackCert", valid)>>
          /\ IF res # "ok"
             THEN /\ valid = "ok"
                  /\ UNCHANGED <<pubKey, co>>
                  /\ Return(Error("getting Fulcio intermediates", Cause(res)))
             ELSE IF valid # "ok"
                  THEN /\ pubKey' = pubKey
                       /\ co' = [co EXCEPT !.IntermediateCerts = Pool({"fulcioIntermediate"})]
                       /\ Return(Error("cosign.ValidateAndUnpackCert", Cause(valid)))
                  ELSE /\ pubKey' = "certKey"
                       /\ co' = [co EXCEPT !.IntermediateCerts = Pool({"fulcioIntermediate"})]
                       /\ Goto("sct")
    /\ UNCHANGED <<c, images, ctxDone, fs, chain, cert, branch, idx, evals>>

\* Line 224-233: the certificate is validated against the passed chain,
\* which is loaded again into a local of the else block.
CertWithChain ==
    /\ pc = "certChain"
    /\ \E x \in Contents(MaxChainLen) \cup {Missing}, valid \in Outcomes :
          /\ Resolve("chain", x)
          /\ LET loaded == loadCertChainFromFileOrURL(x)
             IN  /\ calls' = IF ~loaded.ok
                              THEN Append(calls, Call("loadCertChainFromFileOrURL", "err"))
                              ELSE calls \o
                                   <<Call("loadCertChainFromFileOrURL", "ok"),
                                     Call("cosign.ValidateAndUnpackCertWithChain",
                                          IF Len(loaded.certs) = 0 THEN "err" ELSE valid)>>
                 /\ IF ~loaded.ok
                    THEN /\ valid = "ok"
                         /\ pubKey' = pubKey
                         /\ Return(Error(loaded.err, "error"))
                    ELSE IF valid # "ok" \/ Len(loaded.certs) = 0
                         THEN /\ valid = "err"
                              /\ pubKey' = pubKey
                              /\ Return(Error("cosign.ValidateAndUnpackCertWithChain", "error"))
                         ELSE /\ pubKey' = "certKey"
                              /\ Goto("sct")
    /\ UNCHANGED <<c, images, ctxDone, co, chain, cert, branch, idx, evals>>

\* Line 235-243: the detached SCT, then the verifier is stored.
ReadSCT ==
    /\ pc = "sct"
    /\ \E sctRef \in SCTRefs, res \in Outcomes :
          IF sctRef = ""
          THEN /\ res = "ok"
               /\ co' = [co EXCEPT !.SigVerifier = pubKey]
               /\ calls' = calls
               /\ Goto("loop")
          ELSE /\ calls' = Append(calls, Call("os.ReadFile", res))
               /\ IF res # "ok"
                  THEN /\ co' = co
                       /\ Return(Error("reading sct from file", Cause(res)))
                  ELSE /\ co' = [co EXCEPT !.SCT = "sct", !.SigVerifier = pubKey]
                       /\ Goto("loop")
    /\ UNCHANGED <<c, images, ctxDone, fs, chain, cert, pubKey, branch, idx, evals>>

\* Line 185 and 243: no case matches; the verifier stays nil.
KeylessCase ==
    /\ pc = "switch"
    /\ KeySourceBranch(c.KeyRef, c.Sk, c.CertRef) = "keyless"
    /\ branch' = "keyless"
    /\ co' = [co EXCEPT !.SigVerifier = pubKey]
    /\ Goto("loop")
    /\ UNCHANGED <<c, images, ctxDone, fs, chain, cert, pubKey, idx, evals, calls>>

----------------------------------------------------------------------------
(* DoVerify, line 253-277: the images *)

\* Line 254-258: a local image.
VerifyLocalImage ==
    /\ pc = "loop"
    /\ idx <= Len(images)
    /\ c.LocalImage
    /\ \E res \in CtxOutcomes :
          /\ calls' = Append(calls, Call("cosign.VerifyLocalImageSignatures", res))
          /\ evals' = Append(evals, [image |-> idx, res |-> res,
                                     msg |-> "cosign.VerifyLocalImageSignatures"])
          /\ idx' = idx + 1
          /\ IF LoopContinues(res)
             THEN Goto("loop")
             ELSE Return(Error("cosign.VerifyLocalImageSignatures", Cause(res)))
    /\ UNCHANGED <<c, images, ctxDone, fs, co, chain, cert, pubKey, branch>>

\* Line 259-273: a remote image: its reference is parsed and resolved to
\* the attachment, then its signatures are verified.
VerifyImage ==
    /\ pc = "loop"
    /\ idx <= Len(images)
    /\ ~c.LocalImage
    /\ \E parsed \in Outcomes, attached \in CtxOutcomes, verified \in CtxOutcomes :
          LET res == IF parsed # "ok" THEN parsed
                     ELSE IF attached # "ok" THEN attached
                     ELSE verified
              msg == IF parsed # "ok" THEN "parsing reference"
                     ELSE IF attached # "ok" THEN "resolving attachment type"
                     ELSE "cosign.VerifyImageSignatures"
              c1  == Append(calls, Call("name.ParseReference", parsed))
              c2  == Append(c1, Call("sign.GetAttachedImageRef", attached))
              c3  == Append(c2, Call("cosign.VerifyImageSignatures", verified))
          IN  /\ parsed # "ok" => attached \in {"ok", "canceled"} /\ verified = attached
              /\ parsed = "ok" /\ attached # "ok" => verified = attached
              /\ calls' = IF parsed # "ok" THEN c1
                          ELSE IF attached # "ok" THEN c2
                          ELSE c3
              /\ evals' = Append(evals, [image |-> idx, res |-> res, msg |-> msg])
              /\ idx' = idx + 1
              /\ IF LoopContinues(res)
                 THEN Goto("loop")
                 ELSE Return(Error(msg, Cause(res)))
    /\ UNCHANGED <<c, images, ctxDone, fs, co, chain, cert, pubKey, branch>>

\* Line 276: every image verified.
ReturnNil ==
    /\ pc = "loop"
    /\ idx > Len(images)
    /\ Return(NoError)
    /\ UNCHANGED <<c, images, ctxDone, fs, co, chain, cert, pubKey, branch,
                   idx, evals, calls>>

----------------------------------------------------------------------------

Next ==
    \/ Cancel
    \/ CheckInputs
    \/ Identities
    \/ ClientOpts
    \/ RekorPubs
    \/ RootsSkipped
    \/ RootsFromChain
    \/ FulcioRoots
    \/ FulcioIntermediates
    \/ CTLogPubs
    \/ KeyRefCase
    \/ SkCase
    \/ SkVerifier
    \/ CertRefCase
    \/ CertFulcioRoots
    \/ CertFulcioIntermediates
    \/ CertWithChain
    \/ ReadSCT
    \/ KeylessCase
    \/ VerifyLocalImage
    \/ VerifyImage
    \/ ReturnNil

Spec == Init /\ [][Next]_vars

----------------------------------------------------------------------------
(* Vocabulary of the properties *)

Terminal == {"done", "panic"}

CallIndexes(ops) == {k \in 1..Len(calls) : calls[k].op \in ops}

RootOps == {"loadCertChainFromFileOrURL", "fulcio.GetRoots", "fulcio.GetIntermediates"}
ProofOps == {"cosign.GetRekorPubs", "cosign.GetCTLogPubs"}
VerifierOps == {"sigs.PublicKeyFromKeyRefWithHashAlgo", "sk.Verifier",
                "cosign.ValidateAndUnpackCert", "cosign.ValidateAndUnpackCertWithChain"}
EvalOps == {"name.ParseReference", "sign.GetAttachedImageRef",
            "cosign.VerifyImageSignatures", "cosign.VerifyLocalImageSignatures"}

\* Calls that wait on the network, the file system or a hardware token.
BlockingOps ==
    {"cosign.GetRekorPubs", "cosign.GetCTLogPubs", "loadCertChainFromFileOrURL", "loadCertFromFileOrURL", "fulcio.GetRoots",
     "fulcio.GetIntermediates", "sigs.PublicKeyFromKeyRefWithHashAlgo",
     "pivkey.GetKeyWithSlot", "sk.Verifier", "os.ReadFile",
     "sign.GetAttachedImageRef", "cosign.VerifyImageSignatures",
     "cosign.VerifyLocalImageSignatures"}

\* Positions of DoVerify after the Rekor step, and after the CT log step.
AfterRekor == {"roots", "intermediates", "ctlog", "switch", "skVerifier",
               "certRoots", "certIntermediates", "certChain", "sct", "loop"}
AfterCTLog == {"switch", "skVerifier", "certRoots", "certIntermediates",
               "certChain", "sct", "loop"}
AfterSwitch == {"skVerifier", "certRoots", "certIntermediates", "certChain",
                "sct", "loop"}

Reverse(s) == [k \in 1..Len(s) |-> s[Len(s) + 1 - k]]
Distinct(s) == \A j, k \in 1..Len(s) : j # k => s[j] # s[k]

\* The number of key sources a command configures.
KeySources(cmd) ==
    (IF cmd.KeyRef # "" THEN 1 ELSE 0) + (IF cmd.Sk THEN 1 ELSE 0)
        + (IF cmd.CertRef # "" THEN 1 ELSE 0)

\* The load the trust material loader is said to make: base64 first, the raw
\* bytes when that fails; it fails when those bytes do not parse or hold no
\* certificate.
FallbackLoadFails(x) ==
    LET dec    == Base64Decode(x)
        chosen == IF dec.ok THEN dec.out ELSE x
        parsed == UnmarshalCertificatesFromPEM(chosen)
    IN  ~parsed.ok \/ Len(parsed.certs) = 0

----------------------------------------------------------------------------
(* C1: for every non-empty chain loaded from the chain locator in the
   keyless block, the root pool holds exactly the last certificate and the
   intermediate pool exactly the preceding ones; a chain of one certificate
   leaves the intermediate pool unset; reversing a chain of two or more
   distinct certificates gives another root. *)
C1_ChainPools ==
    (chain.loaded /\ Len(chain.certs) > 0) =>
        LET n == Len(chain.certs)
        IN  /\ co.RootCerts = Pool({chain.certs[n]})
            /\ n = 1 => co.IntermediateCerts = NilPool
            /\ n > 1 => co.IntermediateCerts = Pool({chain.certs[k] : k \in 1..(n - 1)})
            /\ (n > 1 /\ Distinct(chain.certs)) =>
                  /\ RootPool(Reverse(chain.certs)) # co.RootCerts
                  /\ RootPool(Reverse(chain.certs)) = Pool({chain.certs[1]})

C1_Witness ==
    /\ pc = "done" /\ ret = NoError
    /\ chain.loaded /\ Len(chain.certs) = 2 /\ chain.certs[1] # chain.certs[2]
    /\ co.RootCerts = Pool({chain.certs[2]})
    /\ evals # <<>>

(* C2 as claimed: with a static key reference, no root-of-trust resolution
   and no transparency-proof resolution (Rekor or CT log public key fetch)
   is ever invoked. *)
C2_StaticKeyNoResolution ==
    c.KeyRef # "" => CallIndexes(RootOps \cup ProofOps) = {}

(* C2 as amended: with a static key reference, no root-of-trust resolution
   is ever invoked; the Rekor public keys are fetched only when IgnoreTlog
   is unset and the CT log public keys only when IgnoreSCT is unset. *)
C2_StaticKeyNoRoots ==
    c.KeyRef # "" =>
        /\ CallIndexes(RootOps) = {}
        /\ co.RootCerts = NilPool /\ co.IntermediateCerts = NilPool
        /\ CallIndexes({"cosign.GetRekorPubs"}) # {} => ~c.IgnoreTlog
        /\ CallIndexes({"cosign.GetCTLogPubs"}) # {} => ~c.IgnoreSCT

C2_Witness ==
    /\ pc = "done" /\ ret = NoError /\ evals # <<>>
    /\ c.KeyRef # "" /\ ~c.Sk /\ c.CertChain # ""
    /\ c.IgnoreTlog /\ c.IgnoreSCT
    /\ CallIndexes(RootOps \cup ProofOps) = {}

(* C3 as claimed: the key source is resolved first-match-wins in the order
   KeyRef, Sk, CertRef, keyless; one branch is taken, at most one verifier
   is constructed, and a call that configures more than one key source is
   rejected instead of being resolved. *)
C3_KeySourceRejectsSeveral ==
    /\ pc \in AfterSwitch => branch # Nil
    /\ branch # Nil =>
          /\ KeySources(c) <= 1
          /\ c.KeyRef # "" => branch = "keyRef"
          /\ (c.KeyRef = "" /\ c.Sk) => branch = "sk"
          /\ (c.KeyRef = "" /\ ~c.Sk /\ c.CertRef # "") => branch = "certRef"
          /\ (c.KeyRef = "" /\ ~c.Sk /\ c.CertRef = "") => branch = "keyless"
    /\ Cardinality(CallIndexes(VerifierOps)) <= 1
    /\ (pc = "done" /\ KeySources(c) > 1) => ret # NoError

(* C3 as amended: the key source is resolved first-match-wins in the order
   KeyRef, Sk, CertRef, keyless; whenever the switch is reached one branch is
   taken and at most one verifier is constructed; a call that configures
   more than one key source is not rejected, the first match is used. *)
C3_KeySourcePriority ==
    /\ pc \in AfterSwitch => branch # Nil
    /\ branch # Nil =>
          /\ c.KeyRef # "" => branch = "keyRef"
          /\ (c.KeyRef = "" /\ c.Sk) => branch = "sk"
          /\ (c.KeyRef = "" /\ ~c.Sk /\ c.CertRef # "") => branch = "certRef"
          /\ (c.KeyRef = "" /\ ~c.Sk /\ c.CertRef = "") => branch = "keyless"
    /\ Cardinality(CallIndexes(VerifierOps)) <= 1
    /\ pubKey # Nil =>
          /\ branch = "keyRef" <=> pubKey \in {"staticKey", "pkcs11Key"}
          /\ branch = "sk" <=> pubKey = "pivKey"
          /\ branch = "certRef" <=> pubKey = "certKey"

C3_Witness ==
    /\ pc = "done" /\ ret = NoError
    /\ c.KeyRef # "" /\ c.Sk /\ c.CertRef # ""
    /\ branch = "keyRef" /\ co.SigVerifier = "staticKey"

(* C4: whenever IgnoreTlog is unset the Rekor public keys are fetched and
   whenever IgnoreSCT is unset the CT log public keys are fetched, whatever
   RekorURL and Offline are: DoVerify does not get past either step without
   the fetch having succeeded, every per-artifact evaluation comes after
   each required fetch, and a failed fetch ends DoVerify with an error and
   no artifact evaluated. *)
C4_ProofKeysBeforeEvaluation ==
    /\ (pc \in AfterRekor \/ evals # <<>>) /\ ~c.IgnoreTlog =>
          /\ co.RekorPubKeys # Nil
          /\ \E k \in CallIndexes({"cosign.GetRekorPubs"}) : calls[k].res = "ok"
    /\ (pc \in AfterCTLog \/ evals # <<>>) /\ ~c.IgnoreSCT =>
          /\ co.CTLogPubKeys # Nil
          /\ \E k \in CallIndexes({"cosign.GetCTLogPubs"}) : calls[k].res = "ok"
    /\ \A j \in CallIndexes(EvalOps), k \in CallIndexes(ProofOps) : k < j
    /\ \A k \in CallIndexes(ProofOps) :
          calls[k].res # "ok" =>
              /\ k = Len(calls)
              /\ pc = "done" /\ ret # NoError
              /\ evals = <<>>

C4_Witness ==
    /\ evals # <<>>
    /\ ~c.IgnoreTlog /\ ~c.IgnoreSCT
    /\ c.Offline /\ c.RekorURL = ""
    /\ co.RekorPubKeys # Nil /\ co.CTLogPubKeys # Nil

(* C5: once the caller's context is cancelled, no blocking step of DoVerify
   completes in disregard of it: every blocking call made after the
   cancellation ends canceled, and DoVerify then returns an error whose
   cause is the cancellation. *)
C5_CancelFailsFast ==
    /\ \A k \in CallIndexes(BlockingOps) :
          calls[k].ctxDone => calls[k].res = "canceled"
    /\ (pc \in Terminal /\ \E k \in CallIndexes(BlockingOps) : calls[k].ctxDone) =>
          ret.cause = "context.Canceled"

(* C6: a hardware-token handle (PIV or PKCS#11) acquired by DoVerify is
   released on every exit path: when DoVerify has ended, every handle that
   was opened has been closed exactly once, and no handle is closed while
   DoVerify still runs, so none before the last artifact evaluation. *)
C6_HandlesReleased ==
    \A h \in HandleNames :
        /\ handles[h].opens <= 1
        /\ handles[h].closes <= handles[h].opens
        /\ pc \in Terminal => handles[h].closes = handles[h].opens
        /\ pc \notin Terminal => handles[h].closes = 0
        /\ handles[h].opens > handles[h].closes =>
              \E k \in 1..Len(deferred) : deferred[k] = h

C6_Witness ==
    /\ pc = "done" /\ ret # NoError
    /\ Len(evals) = 2
    /\ handles["sk"].opens = 1 /\ handles["sk"].closes = 1

(* C7: a chain locator that loads but yields zero certificates makes DoVerify
   return an EmptyChain error: no crash, no indexing into the empty sequence,
   no artifact evaluated with an empty root pool. *)
C7_EmptyChainIsAnError ==
    (chain.loaded /\ chain.certs = <<>>) =>
        /\ pc # "panic"
        /\ pc = "done" /\ ret.msg = "EmptyChain"
        /\ evals = <<>>

(* C8: every certificate-material load, of a single certificate and of a
   chain, decodes base64 first and parses the raw bytes when that fails: a
   load of content that was found fails only if those bytes do not parse or
   hold no certificate. *)
C8_Base64Fallback ==
    /\ (fs.cert \notin {Unread, Missing}
        /\ \E k \in CallIndexes({"loadCertFromFileOrURL"}) : calls[k].res # "ok")
          => FallbackLoadFails(fs.cert)
    /\ (fs.chain \notin {Unread, Missing}
        /\ \E k \in CallIndexes({"loadCertChainFromFileOrURL"}) : calls[k].res # "ok")
          => FallbackLoadFails(fs.chain)

(* C9: the trust roots are constructed once per invocation: the trust-root
   source (the Fulcio roots and intermediates, or the chain file) is
   resolved at most once in any run of DoVerify. *)
C9_TrustRootsOnce ==
    /\ Cardinality(CallIndexes({"fulcio.GetRoots", "loadCertChainFromFileOrURL"})) <= 1
    /\ Cardinality(CallIndexes({"fulcio.GetIntermediates"})) <= 1

(* C10: the artifacts are evaluated one after the other in input order; the
   first one that fails ends DoVerify with its error and none after it is
   evaluated; DoVerify returns nil only when every artifact was evaluated
   and verified; an empty list or an unsupported attachment is rejected
   before any call or evaluation. *)
C10_SequentialStopAtFirstFailure ==
    /\ Len(evals) <= Len(images)
    /\ \A k \in 1..Len(evals) :
          /\ evals[k].image = k
          /\ k < Len(evals) => evals[k].res = "ok"
    /\ (evals # <<>> /\ evals[Len(evals)].res # "ok") =>
          /\ pc = "done"
          /\ ret = Error(evals[Len(evals)].msg, Cause(evals[Len(evals)].res))
    /\ (pc = "done" /\ ret = NoError) =>
          /\ Len(evals) = Len(images)
          /\ \A k \in 1..Len(evals) : evals[k].res = "ok"
    /\ (pc # "start" /\ Len(images) = 0) => pc = "done" /\ ret.msg = "flag.ErrHelp"
    /\ ret.msg = "flag.ErrHelp" => calls = <<>> /\ evals = <<>>

C10_Witness ==
    /\ pc = "done"
    /\ Len(images) = 2 /\ Len(evals) = 1
    /\ evals[1].res = "err"
    /\ ret.msg = evals[1].msg

====
